---- MODULE Spec2Model ----
(***************************************************************************)
(* gmail-tui: the Bubble Tea session of src/main.go as a state machine.    *)
(*                                                                         *)
(* The state is the Model struct (main.go:59-71) plus what the Bubble Tea  *)
(* runtime holds for it: the commands that were returned by Init/Update    *)
(* and have not delivered their message yet (outstanding fetchEmails       *)
(* goroutines, the pending spinner tick), and whether tea.Quit was         *)
(* returned.  Each action delivers one message to Model.Update, exactly as *)
(* the event loop does, and runs the command Update returns.               *)
(*                                                                         *)
(* list.Model, viewport.Model and spinner.Model are the charmbracelet      *)
(* bubbles components main.go embeds; they are modelled by the behaviour   *)
(* of the methods main.go calls on them.  The list is modelled in the      *)
(* regime where all items fit on one page and no filter is entered; of the *)
(* spinner only the tick it schedules is kept, not the frame it shows.     *)
(***************************************************************************)
EXTENDS Integers, Sequences, FiniteSets, TLC

VARIABLES
    m,          \* the Model value held by the event loop (main.go:59-71)
    inflight,   \* fetchEmails commands started whose message is not delivered
    tickPending,\* a spinner tick command is scheduled
    running,    \* FALSE once Update has returned tea.Quit
    lastOk,     \* the emails of the last EmailsMsg handed to Update
    call,       \* the arguments of one call of a function of main.go
    ret         \* <<>> until that call has returned, then <<its result>>

vars == <<m, inflight, tickPending, running, lastOk, call, ret>>

----------------------------------------------------------------------------
(* Bounds of the model *)

\* messages the provider's mailbox may hold
MaxMsgs == 2
\* fetchEmails goroutines that may be outstanding at once
MaxInflight == 2

\* parts per node and levels of parts below the root of a MIME tree
MaxParts == 2
MaxDepth == 2

(* Program constants *)

\* MaxResults(20), main.go:293
PageSize == 20

----------------------------------------------------------------------------
(* Values *)

Min(a, b) == IF a < b THEN a ELSE b
Max(a, b) == IF a > b THEN a ELSE b

\* Go's integer division truncates toward zero
GoDiv(a, b) == IF a >= 0 THEN a \div b ELSE -((-a) \div b)

\* error values: nil or the cause of a failed listing call
NoErr == "nil"
Errors == {"list failed"}

\* key.Binding key sets of NewKeyMap
KeyUp == {"up", "k"}
KeyDown == {"down", "j"}
KeySelect == {"enter"}
KeyBack == {"esc"}
KeyHelp == {"?"}
KeyQuit == {"Q", "ctrl+c"}
KeyFetch == {"r"}
KeyPageUp == {"pgup"}
KeyPageDown == {"pgdown"}

\* keys the terminal may send: every bound key, the list's own quit key "q",
\* and one key bound nowhere
Keys == KeyUp \cup KeyDown \cup KeySelect \cup KeyBack \cup KeyHelp \cup KeyQuit
          \cup KeyFetch \cup KeyPageUp \cup KeyPageDown \cup {"q", "x"}

\* key.Matches(msg, binding)
Matches(msg, binding) == msg.key \in binding

\* terminal sizes a tea.WindowSizeMsg may carry: a usual one and a tiny one
Sizes == { [Width |-> 80, Height |-> 24],
           [Width |-> 3,  Height |-> 9] }

\* tea.Msg values
KeyMsg(k) == [type |-> "Key", key |-> k, Width |-> 0, Height |-> 0,
              emails |-> <<>>, err |-> NoErr]
WindowSizeMsg(w, h) == [type |-> "WindowSize", key |-> "", Width |-> w, Height |-> h,
                        emails |-> <<>>, err |-> NoErr]
EmailsMsg(es) == [type |-> "Emails", key |-> "", Width |-> 0, Height |-> 0,
                  emails |-> es, err |-> NoErr]
errMsg(e) == [type |-> "err", key |-> "", Width |-> 0, Height |-> 0,
              emails |-> <<>>, err |-> e]
TickMsg == [type |-> "Tick", key |-> "", Width |-> 0, Height |-> 0,
            emails |-> <<>>, err |-> NoErr]

----------------------------------------------------------------------------
(* The mail provider and the Fetch Task *)

\* a text is a sequence of lines; the empty string is one empty line
EmptyText == <<"">>

\* gmail.MessagePartBody: nil, or Data that is empty, not decodable, or the
\* base64url encoding of a text
NilBody == [kind |-> "nil", text |-> <<>>]
EmptyData == [kind |-> "empty", text |-> <<>>]
BadData == [kind |-> "bad", text |-> <<>>]
B64(t) == [kind |-> "b64", text |-> t]

\* gmail.MessagePart
Part(mime, body, parts) == [MimeType |-> mime, Body |-> body, Parts |-> parts]

\* payload.Body != nil && payload.Body.Data != "", main.go:268 and 277
HasData(b) == b.kind # "nil" /\ b.kind # "empty"

\* base64.URLEncoding.DecodeString(Data), main.go:269 and 278
DecodeString(b) ==
    IF b.kind = "b64" THEN [err |-> FALSE, data |-> b.text]
    ELSE [err |-> TRUE, data |-> <<>>]

\* main.go:268-273 and 277-282: the part's data, when present and decodable
Decodes(b) == HasData(b) /\ ~DecodeString(b).err

RECURSIVE ScanParts_AnyType(_)
\* ScanParts without the MimeType test
ScanParts_AnyType(parts) ==
    IF parts = <<>> THEN [found |-> FALSE, text |-> <<>>]
    ELSE IF Decodes(Head(parts).Body)
         THEN [found |-> TRUE, text |-> DecodeString(Head(parts).Body).data]
         ELSE ScanParts_AnyType(Tail(parts))

RECURSIVE ScanParts(_)
\* main.go:276-283: the first text/plain part whose data decodes
ScanParts(parts) ==
    IF parts = <<>> THEN [found |-> FALSE, text |-> <<>>]
    ELSE IF Head(parts).MimeType = "text/plain" /\ Decodes(Head(parts).Body)
         THEN [found |-> TRUE, text |-> DecodeString(Head(parts).Body).data]
         ELSE ScanParts(Tail(parts))

RECURSIVE getMessageBody_EmptyOnDecodeError(_)
\* getMessageBody returning "" when the data of main.go:269 does not decode
getMessageBody_EmptyOnDecodeError(payload) ==
    IF HasData(payload.Body)
    THEN IF DecodeString(payload.Body).err THEN EmptyText
         ELSE DecodeString(payload.Body).data
    ELSE IF payload.Parts # <<>>
         THEN LET r == ScanParts(payload.Parts)
              IN IF r.found THEN r.text
                 ELSE getMessageBody_EmptyOnDecodeError(payload.Parts[1])
         ELSE EmptyText

RECURSIVE getMessageBody(_)
\* main.go:267-290
getMessageBody(payload) ==
    IF Decodes(payload.Body) THEN DecodeString(payload.Body).data
    ELSE IF payload.Parts # <<>>
         THEN LET r == ScanParts(payload.Parts)
              IN IF r.found THEN r.text ELSE getMessageBody(payload.Parts[1])
         ELSE EmptyText

\* the zero time.Time
ZeroTime == "0001-01-01 00:00"

\* time.Parse(layout, value), main.go:315-317, on the Date values of the
\* model: the layout with day "2" reads one or two digits, "02" reads two
DateLayout1 == "Mon, 2 Jan 2006 15:04:05 -0700"
DateLayout2 == "Mon, 02 Jan 2006 15:04:05 -0700"
ParseTime(layout, value) ==
    IF value = "Tue, 3 Feb 2026 10:00:00 +0000" /\ layout = DateLayout1
       THEN [err |-> FALSE, t |-> "2026-02-03 10:00"]
    ELSE IF value = "Tue, 03 Feb 2026 10:00:00 +0000"
       THEN [err |-> FALSE, t |-> "2026-02-03 10:00"]
    ELSE [err |-> TRUE, t |-> ZeroTime]

\* gmail.MessagePartHeader
Header(name, value) == [Name |-> name, Value |-> value]

RECURSIVE ReadHeaders(_, _)
\* main.go:305-321: the loop over email.Payload.Headers
ReadHeaders(hs, acc) ==
    IF hs = <<>> THEN acc
    ELSE LET h == Head(hs)
             next ==
               IF h.Name = "From" THEN [acc EXCEPT !.from = h.Value]
               ELSE IF h.Name = "Subject" THEN [acc EXCEPT !.subject = h.Value]
               ELSE IF h.Name = "Date" THEN
                    (IF ~ParseTime(DateLayout1, h.Value).err
                     THEN [acc EXCEPT !.date = ParseTime(DateLayout1, h.Value).t]
                     ELSE IF ~ParseTime(DateLayout2, h.Value).err
                     THEN [acc EXCEPT !.date = ParseTime(DateLayout2, h.Value).t]
                     ELSE acc)
               ELSE acc
         IN ReadHeaders(Tail(hs), next)

\* NewEmailOf without the placeholder of main.go:323-325
NewEmailOf_RawSubject(id, raw) ==
    LET h == ReadHeaders(raw.Headers, [from |-> "", subject |-> "", date |-> ZeroTime])
    IN [ID |-> id, From |-> h.from, Subject |-> h.subject, Date |-> h.date,
        Body |-> getMessageBody(raw.Payload)]

\* main.go:305-333: the Email built from the message Get returned for id
NewEmailOf(id, raw) ==
    LET h == ReadHeaders(raw.Headers, [from |-> "", subject |-> "", date |-> ZeroTime])
    IN [ID |-> id,
        From |-> h.from,
        Subject |-> IF h.subject = "" THEN "(no subject)" ELSE h.subject,
        Date |-> h.date,
        Body |-> getMessageBody(raw.Payload)]

\* the outcome of Users.Messages.Get for one id: an error, or the message
GetFailed == [err |-> TRUE, Headers |-> <<>>, Payload |-> Part("", NilBody, <<>>)]
GetOk(headers, payload) == [err |-> FALSE, Headers |-> headers, Payload |-> payload]

RECURSIVE CollectEmailsOf_StopAtFailure(_, _)
\* CollectEmailsOf with break in place of continue at main.go:301
CollectEmailsOf_StopAtFailure(ids, get) ==
    IF ids = <<>> THEN <<>>
    ELSE IF get[Head(ids)].err
         THEN <<>>
         ELSE <<NewEmailOf(Head(ids), get[Head(ids)])>>
              \o CollectEmailsOf_StopAtFailure(Tail(ids), get)

RECURSIVE CollectEmailsOf(_, _)
\* main.go:298-334: the loop over r.Messages; a failed Get is skipped
CollectEmailsOf(ids, get) ==
    IF ids = <<>> THEN <<>>
    ELSE IF get[Head(ids)].err
         THEN CollectEmailsOf(Tail(ids), get)
         ELSE <<NewEmailOf(Head(ids), get[Head(ids)])>> \o CollectEmailsOf(Tail(ids), get)

\* main.go:292-337: listErr is the listing call's error, ids the listed
\* message ids, get the outcome of the Get call for each id
fetchEmailsOf(listErr, ids, get) ==
    IF listErr # NoErr
    THEN errMsg(listErr)
    ELSE EmailsMsg(CollectEmailsOf(ids, get))

\* the provider's messages: message id has a Subject header value (empty for
\* even ids) and a body of 3*id - 2 lines
RawSubject(id) == IF id % 2 = 0 THEN "" ELSE "subject"
RawBody(id) == [i \in 1..(3 * id - 2) |-> "line"]

\* the message the provider holds for id: odd ids carry the body inline,
\* even ids as the text/plain alternative of a multipart message
RawMessage(id) ==
    GetOk(<<Header("From", "sender"),
            Header("Subject", RawSubject(id)),
            Header("Date", "Tue, 3 Feb 2026 10:00:00 +0000")>>,
          IF id % 2 = 0
          THEN Part("multipart/alternative", EmptyData,
                    <<Part("text/html", B64(<<"html">>), <<>>),
                      Part("text/plain", B64(RawBody(id)), <<>>)>>)
          ELSE Part("text/plain", B64(RawBody(id)), <<>>))

\* main.go:323-333: the Email built from a retrieved message
NewEmail(id) == NewEmailOf(id, RawMessage(id))

\* main.go:298-334: the loop over r.Messages; a failed Get is skipped
CollectEmails(ids, failed) ==
    CollectEmailsOf(ids, [id \in 1..MaxMsgs |-> IF id \in failed THEN GetFailed
                                                 ELSE RawMessage(id)])

\* main.go:292-337: listErr is the listing call's error, n the number of
\* messages in the mailbox, failed the ids whose Get fails
fetchEmails(listErr, n, failed) ==
    IF listErr # NoErr
    THEN errMsg(listErr)
    ELSE EmailsMsg(CollectEmails([i \in 1..Min(n, PageSize) |-> i], failed))

\* the event loop of Spec follows no single call
NoCall == [kind |-> "none"]

\* what a Fetch Task can return: the listing fails or yields the first n
\* messages of the mailbox, and any of the Get calls may fail
FetchOutcomes ==
    { fetchEmails(e, n, failed) :
        e \in Errors \cup {NoErr}, n \in 0..MaxMsgs, failed \in SUBSET (1..MaxMsgs) }

\* the lists a successful Fetch Task can deliver
OkPayloads == { o.emails : o \in { x \in FetchOutcomes : x.type = "Emails" } }

----------------------------------------------------------------------------
(* bubbles/viewport, as used by main.go *)

\* viewport.New(80, 20), main.go:133
NewViewport == [Width |-> 80, Height |-> 20, YOffset |-> 0, lines |-> <<>>]

maxYOffset(vp) == Max(0, Len(vp.lines) - vp.Height)
AtTop(vp) == vp.YOffset <= 0
AtBottom(vp) == vp.YOffset >= maxYOffset(vp)
SetYOffset(vp, n) == [vp EXCEPT !.YOffset = Min(maxYOffset(vp), Max(0, n))]

\* viewport.LineDown(n), main.go:176
LineDown(vp, n) ==
    IF AtBottom(vp) \/ n = 0 \/ Len(vp.lines) = 0 THEN vp
    ELSE SetYOffset(vp, vp.YOffset + n)

\* viewport.LineUp(n), main.go:178
LineUp(vp, n) ==
    IF AtTop(vp) \/ n = 0 \/ Len(vp.lines) = 0 THEN vp
    ELSE SetYOffset(vp, vp.YOffset - n)

\* viewport.HalfViewDown(), main.go:172
HalfViewDown(vp) ==
    IF AtBottom(vp) THEN vp ELSE SetYOffset(vp, vp.YOffset + GoDiv(vp.Height, 2))

\* viewport.HalfViewUp(), main.go:174
HalfViewUp(vp) ==
    IF AtTop(vp) THEN vp ELSE SetYOffset(vp, vp.YOffset - GoDiv(vp.Height, 2))

\* viewport.SetContent(s), main.go:196: the lines are replaced; the offset is
\* kept unless it points past the last line, and then it goes to the bottom
SetContent(vp, body) ==
    LET vp1 == [vp EXCEPT !.lines = body]
    IN IF vp1.YOffset > Len(vp1.lines) - 1
       THEN SetYOffset(vp1, maxYOffset(vp1))
       ELSE vp1

\* viewport.Update(msg), main.go:224: the viewport's own key map
ViewportUpdate(vp, msg) ==
    IF msg.type # "Key" THEN vp
    ELSE IF msg.key \in {"pgdown"} THEN
            (IF AtBottom(vp) THEN vp ELSE SetYOffset(vp, vp.YOffset + vp.Height))
    ELSE IF msg.key \in {"pgup"} THEN
            (IF AtTop(vp) THEN vp ELSE SetYOffset(vp, vp.YOffset - vp.Height))
    ELSE IF msg.key \in {"down", "j"} THEN LineDown(vp, 1)
    ELSE IF msg.key \in {"up", "k"} THEN LineUp(vp, 1)
    ELSE vp

----------------------------------------------------------------------------
(* bubbles/list, as used by main.go *)

\* list.New([]list.Item{}, delegate, 40, 20), main.go:126
NewList == [items |-> <<>>, cursor |-> 0, width |-> 40, height |-> 20]

\* list.SelectedItem(), main.go:192: nil unless the cursor is on an item
HasSelectedItem(l) == l.cursor >= 0 /\ Len(l.items) > l.cursor
SelectedItem(l) == l.items[l.cursor + 1]

\* SetItems that leaves a non-empty list as it is
SetItems_KeepNonEmpty(l, items) ==
    IF l.items = <<>> THEN [l EXCEPT !.items = items] ELSE l

\* list.SetItems(items), main.go:206: the cursor is left where it was
SetItems(l, items) == [l EXCEPT !.items = items]

\* list.CursorUp()
CursorUp(l) == [l EXCEPT !.cursor = Max(0, l.cursor - 1)]

\* list.CursorDown()
CursorDown(l) ==
    LET n == Len(l.items)
        c == l.cursor + 1
    IN [l EXCEPT !.cursor = IF c < n THEN c ELSE IF c > n THEN 0 ELSE n - 1]

\* the end of list.Update: "keep the index in bounds"
ClampCursor(l) ==
    IF l.cursor > Len(l.items) - 1
    THEN [l EXCEPT !.cursor = Max(0, Len(l.items) - 1)]
    ELSE l

\* list.Update(msg), main.go:219: the list's own key map; "q" and "esc" are
\* its quit keys, "ctrl+c" its force-quit key
ListQuits(msg) == msg.type = "Key" /\ msg.key \in {"q", "esc", "ctrl+c"}

ListUpdate(l, msg) ==
    IF msg.type # "Key" THEN ClampCursor(l)
    ELSE IF ListQuits(msg) THEN l
    ELSE IF msg.key \in {"up", "k"} THEN ClampCursor(CursorUp(l))
    ELSE IF msg.key \in {"down", "j"} THEN ClampCursor(CursorDown(l))
    ELSE ClampCursor(l)

----------------------------------------------------------------------------
(* Model *)

\* main.go:111-145
initialModel ==
    [list |-> NewList,
     helpShowAll |-> FALSE,
     viewport |-> NewViewport,
     loading |-> TRUE,
     selectedMail |-> <<>>,
     err |-> NoErr,
     width |-> 0,
     height |-> 0]

\* main.go:218-228: the message goes on to the list or to the viewport
Delegate(m1, msg) ==
    IF m1.selectedMail = <<>>
    THEN [m |-> [m1 EXCEPT !.list = ListUpdate(m1.list, msg)],
          cmd |-> IF ListQuits(msg) THEN "quit" ELSE "none"]
    ELSE [m |-> [m1 EXCEPT !.viewport = ViewportUpdate(m1.viewport, msg)],
          cmd |-> "none"]

\* main.go:155-164
UpdateWindowSize(m0, msg) ==
    LET m1 == [m0 EXCEPT !.width = msg.Width,
                         !.height = msg.Height,
                         !.list.width = msg.Width,
                         !.list.height = msg.Height - 6]
        m2 == IF m1.selectedMail # <<>>
              THEN [m1 EXCEPT !.viewport.Width = msg.Width - 4,
                              !.viewport.Height = msg.Height - 7]
              ELSE m1
    IN Delegate(m2, msg)

\* UpdateKeyReading with the Fetch key handled as at main.go:188-190
UpdateKeyReading_Refresh(m0, msg) ==
    IF Matches(msg, KeyFetch)
    THEN [m |-> [m0 EXCEPT !.loading = TRUE], cmd |-> "fetch"]
    ELSE [m |-> IF Matches(msg, KeyBack) THEN [m0 EXCEPT !.selectedMail = <<>>]
                ELSE IF Matches(msg, KeyPageDown)
                     THEN [m0 EXCEPT !.viewport = HalfViewDown(m0.viewport)]
                ELSE IF Matches(msg, KeyPageUp)
                     THEN [m0 EXCEPT !.viewport = HalfViewUp(m0.viewport)]
                ELSE IF Matches(msg, KeyDown)
                     THEN [m0 EXCEPT !.viewport = LineDown(m0.viewport, 1)]
                ELSE IF Matches(msg, KeyUp)
                     THEN [m0 EXCEPT !.viewport = LineUp(m0.viewport, 1)]
                ELSE m0,
          cmd |-> "none"]

\* main.go:167-181: a message is open
UpdateKeyReading(m0, msg) ==
    LET m1 ==
          IF Matches(msg, KeyBack) THEN [m0 EXCEPT !.selectedMail = <<>>]
          ELSE IF Matches(msg, KeyPageDown)
               THEN [m0 EXCEPT !.viewport = HalfViewDown(m0.viewport)]
          ELSE IF Matches(msg, KeyPageUp)
               THEN [m0 EXCEPT !.viewport = HalfViewUp(m0.viewport)]
          ELSE IF Matches(msg, KeyDown)
               THEN [m0 EXCEPT !.viewport = LineDown(m0.viewport, 1)]
          ELSE IF Matches(msg, KeyUp)
               THEN [m0 EXCEPT !.viewport = LineUp(m0.viewport, 1)]
          ELSE m0
    IN [m |-> m1, cmd |-> "none"]

\* main.go:191-197
SelectMail(m0) ==
    IF HasSelectedItem(m0.list)
    THEN LET i == SelectedItem(m0.list)
         IN [m0 EXCEPT !.selectedMail = <<i>>,
                       !.viewport = SetContent(
                            [m0.viewport EXCEPT !.Width = m0.width - 4,
                                                !.Height = m0.height - 7],
                            i.Body)]
    ELSE m0

\* main.go:183-198: no message is open
UpdateKeyList(m0, msg) ==
    IF Matches(msg, KeyQuit) THEN [m |-> m0, cmd |-> "quit"]
    ELSE IF Matches(msg, KeyHelp)
         THEN Delegate([m0 EXCEPT !.helpShowAll = ~m0.helpShowAll], msg)
    ELSE IF Matches(msg, KeyFetch)
         THEN [m |-> [m0 EXCEPT !.loading = TRUE], cmd |-> "fetch"]
    ELSE IF Matches(msg, KeySelect) THEN Delegate(SelectMail(m0), msg)
    ELSE Delegate(m0, msg)

\* main.go:166-198
UpdateKey(m0, msg) ==
    IF m0.selectedMail # <<>> THEN UpdateKeyReading(m0, msg)
    ELSE UpdateKeyList(m0, msg)

\* UpdateEmails that also closes the open message
UpdateEmails_CloseMessage(m0, msg) ==
    Delegate([m0 EXCEPT !.loading = FALSE,
                        !.selectedMail = <<>>,
                        !.list = SetItems(m0.list, msg.emails)], msg)

\* UpdateEmails without the assignment of main.go:201: the loading flag stays
UpdateEmails_KeepLoading(m0, msg) ==
    Delegate([m0 EXCEPT !.list = SetItems(m0.list, msg.emails)], msg)

\* main.go:200-206
UpdateEmails(m0, msg) ==
    Delegate([m0 EXCEPT !.loading = FALSE,
                        !.list = SetItems(m0.list, msg.emails)], msg)

\* main.go:208-210
UpdateErr(m0, msg) == [m |-> [m0 EXCEPT !.err = msg.err], cmd |-> "none"]

\* UpdateTick dropping the command spinner.Update returns
UpdateTick_NoNextTick(m0, msg) == [m |-> m0, cmd |-> "none"]

\* main.go:212-215: spinner.Update returns the command of the next tick
UpdateTick(m0, msg) == [m |-> m0, cmd |-> "tick"]

\* main.go:151-229
Update(m0, msg) ==
    CASE msg.type = "WindowSize" -> UpdateWindowSize(m0, msg)
      [] msg.type = "Key" -> UpdateKey(m0, msg)
      [] msg.type = "Emails" -> UpdateEmails(m0, msg)
      [] msg.type = "err" -> UpdateErr(m0, msg)
      [] msg.type = "Tick" -> UpdateTick(m0, msg)

\* main.go:231-262: the screen View renders
Mode(mm) ==
    IF mm.err # NoErr THEN "Failed"
    ELSE IF mm.loading THEN "Loading"
    ELSE IF mm.selectedMail # <<>> THEN "Reading"
    ELSE "Browsing"

----------------------------------------------------------------------------
(* The event loop *)

\* main.go:439 and main.go:147-149: Init starts the spinner tick and one fetch
Init ==
    /\ m = initialModel
    /\ inflight = 1
    /\ tickPending = TRUE
    /\ running = TRUE
    /\ lastOk = <<>>
    /\ call = NoCall
    /\ ret = <<>>

\* one turn of the loop: msg is handed to Update; the returned command is run
Step(msg, delivered, tick) ==
    LET r == Update(m, msg)
    IN /\ m' = r.m
       /\ inflight' = inflight - delivered + (IF r.cmd = "fetch" THEN 1 ELSE 0)
       /\ tickPending' = IF tick THEN r.cmd = "tick" ELSE tickPending
       /\ running' = (r.cmd # "quit")
       /\ lastOk' = IF msg.type = "Emails" THEN msg.emails ELSE lastOk
       /\ UNCHANGED <<call, ret>>

\* a key press; the refresh key is not pressed beyond the bound on fetches
KeyPress ==
    /\ running
    /\ \E k \in Keys :
          /\ (k \in KeyFetch => inflight < MaxInflight)
          /\ Step(KeyMsg(k), 0, FALSE)

Resize ==
    /\ running
    /\ \E s \in Sizes : Step(WindowSizeMsg(s.Width, s.Height), 0, FALSE)

\* an outstanding fetchEmails returns its message
FetchDone ==
    /\ running
    /\ inflight > 0
    /\ \E msg \in FetchOutcomes : Step(msg, 1, FALSE)

SpinnerTick ==
    /\ running
    /\ tickPending
    /\ Step(TickMsg, 0, TRUE)

Next == KeyPress \/ Resize \/ FetchDone \/ SpinnerTick

Spec == Init /\ [][Next]_vars

----------------------------------------------------------------------------
(* One call of fetchEmails or getMessageBody, on inputs from bounded sets *)

\* the text a part at the given position of a MIME tree carries
TextAt(path) == <<"text">> \o [i \in 1..Len(path) |-> ToString(path[i])]

BodyAt(kind, path) ==
    CASE kind = "nil" -> NilBody
      [] kind = "empty" -> EmptyData
      [] kind = "bad" -> BadData
      [] kind = "b64" -> B64(TextAt(path))

MimeTypes == {"text/plain", "text/html"}
BodyKinds == {"nil", "empty", "bad", "b64"}
PartBodyKinds == {"empty", "bad", "b64"}
LaterBodyKinds == {"bad", "b64"}

\* a part without parts of its own, at the given position
LeafAt(mime, kind, path) == Part(mime, BodyAt(kind, path), <<>>)

\* the parts that follow the first one: n - 1 leaves
LaterParts(path, n) ==
    { [i \in 1..(n - 1) |-> LeafAt(f[i].mime, f[i].kind, path \o <<i + 1>>)] :
        f \in [1..(n - 1) -> [mime : MimeTypes, kind : LaterBodyKinds]] }

RECURSIVE PartsAt(_, _)
\* the Parts of a node: none, or up to MaxParts of which the first may have
\* parts of its own down to the given depth
PartsAt(path, depth) ==
    IF depth = 0 THEN {<<>>}
    ELSE LET below == PartsAt(path \o <<1>>, depth - 1)
         IN {<<>>} \cup UNION {
              { <<Part(mime, BodyAt(kind, path \o <<1>>), sub)>> \o rest :
                  sub \in below, mime \in MimeTypes, kind \in PartBodyKinds,
                  rest \in LaterParts(path, n) } : n \in 1..MaxParts }

\* a message payload: the root part of a MIME tree
Tree(kind, parts) ==
    Part(IF parts = <<>> THEN "text/plain" ELSE "multipart/mixed",
         BodyAt(kind, <<>>), parts)

\* the header lists of the messages fetchEmails retrieves: Subject with a
\* value, with the empty value, absent, and given twice
HeaderLists ==
    { <<Header("From", "ann"), Header("Subject", "hello"),
        Header("Date", "Tue, 3 Feb 2026 10:00:00 +0000")>>,
      <<Header("Subject", ""), Header("Date", "Tue, 03 Feb 2026 10:00:00 +0000")>>,
      <<Header("From", "bob"), Header("Date", "yesterday")>>,
      <<Header("Subject", "hello"), Header("Subject", "")>> }

\* the payloads of the messages fetchEmails retrieves
FetchPayloads ==
    { Part("text/plain", B64(<<"inline">>), <<>>),
      Part("text/plain", BadData, <<>>) }

\* what Get returns for one id
GetOutcomes ==
    {GetFailed} \cup { GetOk(h, p) : h \in HeaderLists, p \in FetchPayloads }

\* orders in which ids can be held by the mailbox, newest first
Mailboxes ==
    UNION { { b \in [1..n -> 1..MaxMsgs] : \A i, j \in 1..n : b[i] = b[j] => i = j } :
              n \in 0..MaxMsgs }

\* Users.Messages.List(...).MaxResults(20), main.go:293: the first page
ListMessages(box) == SubSeq(box, 1, Min(Len(box), PageSize))

\* mailboxes around the page size, every Get of which fails, succeeds, or
\* fails for the even ids
LargeFetchCalls ==
    { [kind |-> "fetch", listErr |-> NoErr,
       box |-> [i \in 1..n |-> i],
       get |-> [id \in 1..n |-> IF fails[(id % 2) + 1] THEN GetFailed ELSE RawMessage(id)]] :
        n \in {PageSize - 1, PageSize, PageSize + 1},
        fails \in [1..2 -> BOOLEAN] }

FetchCalls ==
    { [kind |-> "fetch", listErr |-> e, box |-> b, get |-> g] :
        e \in Errors \cup {NoErr}, b \in Mailboxes,
        g \in [1..MaxMsgs -> GetOutcomes] }
    \cup LargeFetchCalls

BodyCall(payload) == [kind |-> "body", payload |-> payload]

FunInit ==
    /\ m = initialModel
    /\ inflight = 1
    /\ tickPending = TRUE
    /\ running = TRUE
    /\ lastOk = <<>>
    /\ \/ call \in FetchCalls
       \/ \E kind \in BodyKinds, parts \in PartsAt(<<>>, MaxDepth) :
             call = BodyCall(Tree(kind, parts))
    /\ ret = <<>>

\* the Fetch Task runs fetchEmails
RunFetch ==
    /\ call.kind = "fetch"
    /\ ret = <<>>
    /\ ret' = <<fetchEmailsOf(call.listErr, ListMessages(call.box), call.get)>>
    /\ UNCHANGED <<m, inflight, tickPending, running, lastOk, call>>

\* the message fetchEmails returned is handed to Update
Deliver ==
    /\ call.kind = "fetch"
    /\ ret # <<>>
    /\ inflight > 0
    /\ Step(ret[1], 1, FALSE)

\* getMessageBody is called on a payload
RunBody ==
    /\ call.kind = "body"
    /\ ret = <<>>
    /\ ret' = <<getMessageBody(call.payload)>>
    /\ UNCHANGED <<m, inflight, tickPending, running, lastOk, call>>

FunNext == RunFetch \/ Deliver \/ RunBody

FunSpec == FunInit /\ [][FunNext]_vars

\* the event loop and the single calls side by side
AllNext == (call = NoCall /\ Next) \/ FunNext

AllSpec == (Init \/ FunInit) /\ [][AllNext]_vars

----------------------------------------------------------------------------
(* Properties *)

Modes == {"Loading", "Browsing", "Reading", "Failed"}

\* C1: exactly one of the four modes is active, as View reads it, and a
\* message is selected (the detail view exists) iff the mode is Reading.
C1_DetailIffReading ==
    /\ Mode(m) \in Modes
    /\ (m.selectedMail # <<>>) <=> (Mode(m) = "Reading")

\* C2: a delivered fetch error makes the mode Failed; the refresh key pressed
\* in Failed requests one fetch and makes the mode Loading.
C2_FailedRefreshLoads ==
    running =>
      /\ inflight > 0 =>
            \A e \in Errors : Mode(Update(m, errMsg(e)).m) = "Failed"
      /\ (Mode(m) = "Failed" /\ inflight < MaxInflight) =>
            \A k \in KeyFetch :
               LET r == Update(m, KeyMsg(k))
               IN r.cmd = "fetch" /\ Mode(r.m) = "Loading"

\* C3: from any Failed state, the refresh key followed by the successful
\* outcome of the fetch it started leads to Browsing with the new list.
C3_FailedRecovers ==
    (running /\ Mode(m) = "Failed" /\ inflight < MaxInflight) =>
       \A k \in KeyFetch, es \in OkPayloads :
          LET m1 == Update(m, KeyMsg(k)).m
              m2 == Update(m1, EmailsMsg(es)).m
          IN Mode(m2) = "Browsing" /\ m2.list.items = es

\* the mode changes the session state machine lists
ListedEdges ==
    { <<"Loading", "Browsing">>, <<"Loading", "Failed">>,
      <<"Browsing", "Reading">>, <<"Browsing", "Loading">>, <<"Browsing", "Failed">>,
      <<"Reading", "Browsing">>,
      <<"Failed", "Loading">> }

\* C4: the initial mode is Loading and every step that changes the mode
\* follows a listed edge, an edge into Loading being taken by a refresh.
C4_OnlyListedEdges ==
    /\ Mode(m) = "Loading"
    /\ [][ Mode(m') # Mode(m) =>
             /\ <<Mode(m), Mode(m')>> \in ListedEdges
             /\ Mode(m') = "Loading" => inflight' = inflight + 1 ]_vars

\* C5: in Browsing and in Reading the quit key (Q or ctrl+c) makes Update
\* return the quit command.
C5_QuitFromBrowsingAndReading ==
    (running /\ Mode(m) \in {"Browsing", "Reading"}) =>
       \A k \in KeyQuit : Update(m, KeyMsg(k)).cmd = "quit"

\* C6: at most one Fetch Task awaits delivery of its outcome.
C6_AtMostOneFetch == inflight <= 1

\* a window size was received and leaves the viewport a height >= 0
Sized(mm) == mm.height >= 7

\* C7: in Browsing with a selected item, select opens that message in
\* Reading with scroll offset 0; back then returns to Browsing without the
\* detail and with the list's selection index as before.  Stated for the
\* sessions that have received a window size.
C7_SelectThenBack ==
    (running /\ Sized(m) /\ Mode(m) = "Browsing" /\ HasSelectedItem(m.list)) =>
       \A ks \in KeySelect, kb \in KeyBack :
          LET sel == SelectedItem(m.list)
              m1 == Update(m, KeyMsg(ks)).m
              m2 == Update(m1, KeyMsg(kb)).m
          IN /\ Mode(m1) = "Reading"
             /\ m1.selectedMail = <<sel>>
             /\ m1.viewport.lines = sel.Body
             /\ m1.viewport.YOffset = 0
             /\ Mode(m2) = "Browsing"
             /\ m2.selectedMail = <<>>
             /\ m2.list.cursor = m.list.cursor

\* C8: a resize in Reading sets the viewport's size from the new terminal
\* size and leaves 0 <= scroll offset <= max(0, content lines - new height).
\* Stated for the sessions that have received a window size before.
C8_ResizeReclamps ==
    (running /\ Sized(m) /\ Mode(m) = "Reading") =>
       \A s \in Sizes :
          LET vp == Update(m, WindowSizeMsg(s.Width, s.Height)).m.viewport
          IN /\ vp.Width = s.Width - 4
             /\ vp.Height = s.Height - 7
             /\ 0 <= vp.YOffset
             /\ vp.YOffset <= Max(0, Len(vp.lines) - vp.Height)

\* C9: a fetch that succeeds with zero messages while the list is still
\* empty leads to Browsing with an empty list and no selected item; there,
\* and in every Browsing state with an empty list, select, up and down open
\* no message, keep the list empty and index no item; right after the fetch
\* they change nothing at all.
C9_EmptyListIsSafe ==
    /\ (running /\ Mode(m) = "Loading" /\ m.list.items = <<>> /\ inflight > 0) =>
          LET m1 == Update(m, EmailsMsg(<<>>)).m
          IN /\ Mode(m1) = "Browsing"
             /\ m1.list.items = <<>>
             /\ ~HasSelectedItem(m1.list)
             /\ \A k \in KeySelect \cup KeyUp \cup KeyDown :
                   LET r == Update(m1, KeyMsg(k))
                   IN r.m = m1 /\ r.cmd = "none"
    /\ (running /\ Mode(m) = "Browsing" /\ m.list.items = <<>>) =>
          \A k \in KeySelect \cup KeyUp \cup KeyDown :
             LET r == Update(m, KeyMsg(k))
             IN /\ r.m.selectedMail = <<>>
                /\ r.m.list.items = <<>>
                /\ ~HasSelectedItem(r.m.list)
                /\ Mode(r.m) = "Browsing"
                /\ r.cmd = "none"

\* the first fetch has delivered an empty list and nothing is open
C9_Witness ==
    /\ running
    /\ inflight = 0
    /\ Mode(m) = "Browsing"
    /\ m.list.items = <<>>
    /\ m.selectedMail = <<>>

\* C10: the refresh key in Browsing returns one fetch command, makes the mode
\* Loading and does not touch the list; from then until a fetch outcome is
\* delivered the list's items and selection stay as they were.
C10_RefreshKeepsList ==
    /\ [](running /\ Mode(m) = "Browsing" /\ inflight < MaxInflight =>
            \A k \in KeyFetch :
               LET r == Update(m, KeyMsg(k))
               IN r.cmd = "fetch" /\ Mode(r.m) = "Loading" /\ r.m.list = m.list)
    /\ [][ (Mode(m) = "Loading" /\ inflight' >= inflight) =>
             /\ m'.list.items = m.list.items
             /\ m'.list.cursor = m.list.cursor ]_vars

----------------------------------------------------------------------------
(* The Fetch Task and body extraction *)

\* the call of fetchEmails has returned r
FetchReturned == call.kind = "fetch" /\ ret # <<>>

\* the ids the listing call yields: the head of the mailbox, a page at most
Listed == [i \in 1..Min(Len(call.box), PageSize) |-> call.box[i]]

Retrieved(id) == ~call.get[id].err

IdsOf(emails) == [i \in 1..Len(emails) |-> emails[i].ID]

\* C11: the Fetch Task yields a fetch-error, carrying the cause, exactly when
\* the listing call fails; otherwise it yields the listed ids (20 at most)
\* whose retrieval succeeded, in listing order, whatever combination of
\* retrievals fails, an empty list when all of them fail.
C11_FetchPartialSuccess ==
    FetchReturned =>
        LET r == ret[1]
        IN /\ (r.type = "err") <=> (call.listErr # NoErr)
           /\ r.type = "err" => r.err = call.listErr
           /\ r.type # "err" =>
                /\ r.type = "Emails"
                /\ Len(r.emails) <= PageSize
                /\ IdsOf(r.emails) = SelectSeq(Listed, Retrieved)

\* a mailbox of one message more than a page, the even ids failing: the
\* odd ids of the first page are returned
C11_Witness ==
    /\ FetchReturned
    /\ Len(call.box) = PageSize + 1
    /\ call.get[2].err /\ ~call.get[1].err
    /\ ret[1].type = "Emails"
    /\ Len(ret[1].emails) = PageSize \div 2

\* a part carries content when its data is present and decodes
HasContent(part) == part.Body.kind = "b64"
Content(part) == part.Body.text

RECURSIVE ExpectedBody(_)
\* the body the extraction rules name for a MIME tree
ExpectedBody(part) ==
    LET plain == { i \in 1..Len(part.Parts) :
                     /\ part.Parts[i].MimeType = "text/plain"
                     /\ HasContent(part.Parts[i]) }
    IN IF HasContent(part) THEN Content(part)
       ELSE IF plain # {}
            THEN Content(part.Parts[CHOOSE i \in plain : \A j \in plain : i <= j])
       ELSE IF Len(part.Parts) > 0 THEN ExpectedBody(part.Parts[1])
       ELSE EmptyText

BodyReturned == call.kind = "body" /\ ret # <<>>

\* C12: body extraction returns the root's inline content when the root
\* carries decodable content; otherwise the content of the first immediate
\* child that is text/plain with content, whatever precedes it; otherwise,
\* when there are children, what extraction from the first child returns;
\* otherwise the empty body.
C12_BodyExtraction ==
    BodyReturned => ret[1] = ExpectedBody(call.payload)

\* a single part nested in a single part: its text is returned
C12_Witness ==
    /\ BodyReturned
    /\ Len(call.payload.Parts) = 1
    /\ Len(call.payload.Parts[1].Parts) = 1
    /\ call.payload.Parts[1].Parts[1].MimeType = "text/html"
    /\ ret[1] = TextAt(<<1, 1>>)

\* the values of the Subject headers of a header list, in order
SubjectValues(headers) ==
    LET IsSubject(h) == h.Name = "Subject"
        hs == SelectSeq(headers, IsSubject)
    IN [i \in 1..Len(hs) |-> hs[i].Value]

\* the subject the rule names: the placeholder when no Subject header is
\* there or the last one has the empty value
ExpectedSubject(headers) ==
    LET vs == SubjectValues(headers)
    IN IF vs = <<>> THEN "(no subject)"
       ELSE IF vs[Len(vs)] = "" THEN "(no subject)"
       ELSE vs[Len(vs)]

\* C13: every summary a Fetch Task produces has the Subject header's value as
\* its subject, or "(no subject)" when the header is absent or empty; no item
\* of the list has an empty subject.
C13_SubjectNeverEmpty ==
    /\ \A i \in 1..Len(m.list.items) : m.list.items[i].Subject # ""
    /\ (FetchReturned /\ ret[1].type = "Emails") =>
          \A i \in 1..Len(ret[1].emails) :
             LET e == ret[1].emails[i]
             IN /\ e.Subject # ""
                /\ e.Subject = ExpectedSubject(call.get[e.ID].Headers)

\* a listed item built from a message without Subject header
C13_Witness ==
    /\ FetchReturned
    /\ \E i \in 1..Len(m.list.items) :
          /\ SubjectValues(call.get[m.list.items[i].ID].Headers) = <<>>
          /\ m.list.items[i].Subject = "(no subject)"

\* the root's inline data is there and does not decode
RootUndecodable(payload) == payload.Body.kind = "bad"

\* the tree without the root's inline data
WithoutRootData(payload) == [payload EXCEPT !.Body = NilBody]

\* every listed message that was retrieved with undecodable root data is in
\* the result, with the given body
IncludedWith(body(_)) ==
    (FetchReturned /\ ret[1].type = "Emails") =>
        \A i \in 1..Len(Listed) :
           LET raw == call.get[Listed[i]]
           IN (~raw.err /\ RootUndecodable(raw.Payload)) =>
                 \E j \in 1..Len(ret[1].emails) :
                    /\ ret[1].emails[j].ID = Listed[i]
                    /\ ret[1].emails[j].Body = body(raw.Payload)

NoBody(payload) == EmptyText
BodyOfParts(payload) == ExpectedBody(WithoutRootData(payload))

\* C17 as stated: whenever the root's inline data cannot be decoded, body
\* extraction returns the empty body, and the message is still in the fetch
\* result.
C17_DecodeFailureGivesEmptyBody ==
    /\ (BodyReturned /\ RootUndecodable(call.payload)) => ret[1] = EmptyText
    /\ IncludedWith(NoBody)

\* C17 amended: when the root's inline data cannot be decoded, body extraction
\* goes on as for a root without inline data (first text/plain child with
\* content, else the first child's extraction) and returns the empty body
\* only when that finds no content; the message is still in the fetch result.
C17_DecodeFailureFallsThrough ==
    /\ (BodyReturned /\ RootUndecodable(call.payload)) =>
          /\ ret[1] = BodyOfParts(call.payload)
          /\ (ret[1] = EmptyText) <=>
                (ExpectedBody(WithoutRootData(call.payload)) = EmptyText)
    /\ IncludedWith(BodyOfParts)

\* undecodable root data over an html part and a text/plain part with
\* content: the text/plain part's text is returned
C17_Witness ==
    /\ BodyReturned
    /\ RootUndecodable(call.payload)
    /\ Len(call.payload.Parts) = 2
    /\ call.payload.Parts[1].MimeType = "text/html"
    /\ call.payload.Parts[2].MimeType = "text/plain"
    /\ ret[1] = TextAt(<<2>>)

----------------------------------------------------------------------------
(* Frame conditions of the event loop *)

\* the keys the Reading branch of Update acts on, main.go:168-179
ReadingKeys == KeyBack \cup KeyUp \cup KeyDown \cup KeyPageUp \cup KeyPageDown

\* the keys of the application's keymap, main.go:97-109
AppKeys ==
    KeyUp \cup KeyDown \cup KeySelect \cup KeyBack \cup KeyHelp \cup KeyQuit
    \cup KeyFetch \cup KeyPageUp \cup KeyPageDown

\* the keys the list component binds to quitting
ListQuitKeys == { k \in Keys : ListQuits(KeyMsg(k)) }

\* mode, list contents, detail, error and loading flag are the same
SameSession(a, b) ==
    /\ Mode(a) = Mode(b)
    /\ a.list.items = b.list.items
    /\ a.selectedMail = b.selectedMail
    /\ a.viewport = b.viewport
    /\ a.err = b.err
    /\ a.loading = b.loading

KeyMsgs == { KeyMsg(k) : k \in Keys }
ResizeMsgs == { WindowSizeMsg(sz.Width, sz.Height) : sz \in Sizes }
ErrMsgs == { o \in FetchOutcomes : o.type = "err" }
AllMsgs == KeyMsgs \cup ResizeMsgs \cup {TickMsg} \cup FetchOutcomes

\* C15: the list's items are, in the same order, the payload of the most
\* recently delivered fetch-success, empty before any; key, resize, tick and
\* fetch-error events never change the items.
C15_ListIsLastSuccess ==
    /\ m.list.items = lastOk
    /\ \A msg \in KeyMsgs \cup ResizeMsgs \cup {TickMsg} \cup ErrMsgs :
          Update(m, msg).m.list.items = m.list.items

\* the list that held the open message has been replaced by a later success
C15_Witness ==
    /\ m.selectedMail = <<NewEmail(1)>>
    /\ lastOk = <<NewEmail(2)>>
    /\ m.list.items = <<NewEmail(2)>>

\* C16: while a Fetch Task is outstanding the loop still processes key,
\* resize and tick events, and every processed spinner tick schedules the
\* next one.
C16_LoopNeverBlocks ==
    (running /\ inflight > 0) =>
        /\ ENABLED KeyPress
        /\ ENABLED Resize
        /\ tickPending
        /\ ENABLED SpinnerTick
        /\ Update(m, TickMsg).cmd = "tick"

\* fetches are outstanding, the refresh key having been processed while one
\* was; a resize and the help key have been processed as well
C16_Witness ==
    /\ running
    /\ inflight = MaxInflight
    /\ lastOk = <<>> /\ m.err = NoErr /\ m.loading
    /\ m.width = 80
    /\ m.helpShowAll
    /\ tickPending

\* C18: whenever the loading flag is false, no Fetch Task is outstanding.
C18_LoadingTracksFetches == ~m.loading => inflight = 0

\* C19: whenever a message is selected, the viewport's width and height are
\* not negative.
C19_ViewportNotNegative ==
    m.selectedMail # <<>> => m.viewport.Width >= 0 /\ m.viewport.Height >= 0

\* C20: while a message is selected, a delivered fetch-success or fetch-error
\* leaves the selected message and the viewport's content and scroll offset
\* as they are; only the back key clears the selection.
C20_OpenMessageIsSnapshot ==
    m.selectedMail # <<>> =>
        /\ \A msg \in FetchOutcomes :
              LET r == Update(m, msg).m
              IN /\ r.selectedMail = m.selectedMail
                 /\ r.viewport.lines = m.viewport.lines
                 /\ r.viewport.YOffset = m.viewport.YOffset
        /\ \A msg \in AllMsgs :
              Update(m, msg).m.selectedMail = <<>> =>
                 msg.type = "Key" /\ msg.key \in KeyBack

\* a scrolled open message whose list has since been replaced by an empty one
C20_Witness ==
    /\ m.selectedMail = <<NewEmail(2)>>
    /\ m.viewport.lines = RawBody(2)
    /\ m.viewport.YOffset > 0
    /\ lastOk = <<>>
    /\ m.list.items = <<>>

====
